---- MODULE Spec2Model ----
(***************************************************************************)
(* Novel Nest: the Auth Session Manager (context/AuthContext.tsx), the     *)
(* hash router (App.tsx) and the two data-access layers (the in-memory     *)
(* fixture service and the fetch-based service).                           *)
(*                                                                         *)
(* Strings the code inspects character by character (the location hash)    *)
(* are sequences of one-character strings.  JSON text is a sequence of     *)
(* tokens.  A User carries user_id, username, email and role; created_at,  *)
(* profile_picture and bio are display data that no modelled code reads.   *)
(***************************************************************************)
EXTENDS Integers, Sequences, FiniteSets, TLC

VARIABLES
    dal,            \* which module '../services/apiService' resolves to
    status,         \* AuthProvider life cycle: "mounting" | "ready" | "crashed"
    user,           \* AuthProvider state `user` (User | null)
    sessionStorage, \* window.sessionStorage: key -> stored text
    mockUsers,      \* mockData.ts module-level array
    dbUsers,        \* the users table behind /api/auth/signup
    pending,        \* DAL promises the handlers are awaiting
    lastCall,       \* the last handler that ran to its end and what it returned
    locationHash,   \* window.location.hash
    hash,           \* Router state `hash`
    dbNovels,       \* the novels table behind /api/novels
    dbEpisodes,     \* the episodes table behind /api/novels/[novelId]/episodes
    lastRead,       \* the last read of the data access layer and what it settled to
    comments,       \* the flat comment list of the episode on display
    forest          \* the reply forest built from it

dataVars == <<dbNovels, dbEpisodes, lastRead, comments, forest>>

vars == <<dal, status, user, sessionStorage, mockUsers, dbUsers, pending,
          lastCall, locationHash, hash, dataVars>>

authVars == <<dal, status, sessionStorage, mockUsers, dbUsers, pending, lastCall>>

(***************************************************************************)
(* Bounds                                                                  *)
(***************************************************************************)
MaxTail == 3        \* characters after the route prefix in a hash
MaxSignups == 2     \* signups per page load
MaxPending == 2     \* DAL calls in flight at once
MaxJsonNum == 20    \* largest number the JSON reader is asked to read
MaxEpisodes == 3    \* rows in the episodes table
MaxNovels == 13     \* rows in the novels table
MaxComments == 3    \* comments in the list that is threaded

(***************************************************************************)
(* Values                                                                  *)
(***************************************************************************)
Null == [absent |-> TRUE]

READER == "Reader"
WRITER == "Writer"
ADMIN == "Admin"
DEVELOPER == "Developer"

NewUserRecord(id, name, mail, r) ==
    [user_id |-> id, username |-> name, email |-> mail, role |-> r]

InitialMockUsers ==
    << NewUserRecord(1, "ReaderJoe", "reader@test.com", READER),
       NewUserRecord(2, "WriterJane", "writer@test.com", WRITER),
       NewUserRecord(3, "AdminAlex", "admin@test.com", ADMIN),
       NewUserRecord(4, "DevSam", "dev@test.com", DEVELOPER) >>

Range(s) == {s[i] : i \in 1..Len(s)}

Max(S) == CHOOSE m \in S : \A x \in S : x <= m

(***************************************************************************)
(* String primitives used by the router                                    *)
(***************************************************************************)
StartsWith(s, p) == Len(p) <= Len(s) /\ SubSeq(s, 1, Len(p)) = p

IndexOf(s, pat) ==
    LET hits == {i \in 1..(Len(s) - Len(pat) + 1) : SubSeq(s, i, i + Len(pat) - 1) = pat}
    IN  IF hits = {} THEN 0 ELSE CHOOSE i \in hits : \A j \in hits : i <= j

\* String.prototype.replace with a string pattern: the first occurrence only
Replace(s, pat, rep) ==
    LET i == IndexOf(s, pat)
    IN  IF i = 0 THEN s
        ELSE SubSeq(s, 1, i - 1) \o rep \o SubSeq(s, i + Len(pat), Len(s))

RECURSIVE Split(_, _)
Split(s, sep) ==
    LET i == IndexOf(s, <<sep>>)
    IN  IF i = 0 THEN <<s>>
        ELSE <<SubSeq(s, 1, i - 1)>> \o Split(SubSeq(s, i + 1, Len(s)), sep)

\* ids[i] of a JS array: undefined past the end, which parseInt reads as "undefined"
UndefinedStr == <<"u", "n", "d", "e", "f", "i", "n", "e", "d">>
At(arr, i) == IF i + 1 <= Len(arr) THEN arr[i + 1] ELSE UndefinedStr

Digits == <<"0", "1", "2", "3", "4", "5", "6", "7", "8", "9">>
IsDigit(c) == c \in Range(Digits)
DigitVal(c) == (CHOOSE i \in 1..10 : Digits[i] = c) - 1
IsWhiteSpace(c) == c \in {" ", "\t", "\n"}

RECURSIVE TrimStart(_)
TrimStart(s) ==
    IF s # <<>> /\ IsWhiteSpace(Head(s)) THEN TrimStart(Tail(s)) ELSE s

RECURSIVE DigitPrefixLen(_)
DigitPrefixLen(s) ==
    IF s # <<>> /\ IsDigit(Head(s)) THEN 1 + DigitPrefixLen(Tail(s)) ELSE 0

RECURSIVE DecimalValue(_)
DecimalValue(ds) ==
    IF ds = <<>> THEN 0
    ELSE 10 * DecimalValue(SubSeq(ds, 1, Len(ds) - 1)) + DigitVal(ds[Len(ds)])

\* parseInt(s, 10)
NaN == [nan |-> TRUE, val |-> 0]
ParseInt(s) ==
    LET t == TrimStart(s)
        neg == t # <<>> /\ Head(t) = "-"
        body == IF t # <<>> /\ Head(t) \in {"+", "-"} THEN Tail(t) ELSE t
        n == DigitPrefixLen(body)
        v == DecimalValue(SubSeq(body, 1, n))
    IN  IF n = 0 THEN NaN
        ELSE [nan |-> FALSE, val |-> IF neg THEN 0 - v ELSE v]

IsNaN(x) == x.nan

(***************************************************************************)
(* Router (App.tsx)                                                        *)
(***************************************************************************)
NovelPrefix == <<"#", "/", "n", "o", "v", "e", "l", "/">>
ReadPrefix == <<"#", "/", "r", "e", "a", "d", "/">>

LoginPage == [kind |-> "LoginPage", novelId |-> 0, episodeId |-> 0]
HomePage == [kind |-> "HomePage", novelId |-> 0, episodeId |-> 0]
WriterDashboard == [kind |-> "WriterDashboard", novelId |-> 0, episodeId |-> 0]
AdminDashboard == [kind |-> "AdminDashboard", novelId |-> 0, episodeId |-> 0]
DeveloperDashboard == [kind |-> "DeveloperDashboard", novelId |-> 0, episodeId |-> 0]
NovelDetailPage(id) == [kind |-> "NovelDetailPage", novelId |-> id, episodeId |-> 0]
ReadNovelPage(n, e) == [kind |-> "ReadNovelPage", novelId |-> n, episodeId |-> e]

\* user.role of a value that may lack the property
RoleOf(u) == IF "role" \in DOMAIN u THEN u.role ELSE "undefined"

\* RoleSwitch with the Admin case lost
RoleSwitchWithoutAdmin(u) ==
    CASE RoleOf(u) = READER -> HomePage
      [] RoleOf(u) = WRITER -> WriterDashboard
      [] RoleOf(u) = DEVELOPER -> DeveloperDashboard
      [] OTHER -> HomePage

RoleSwitch(u) ==
    CASE RoleOf(u) = READER -> HomePage
      [] RoleOf(u) = WRITER -> WriterDashboard
      [] RoleOf(u) = ADMIN -> AdminDashboard
      [] RoleOf(u) = DEVELOPER -> DeveloperDashboard
      [] OTHER -> HomePage

NovelRoute(h) ==
    LET id == ParseInt(Replace(h, NovelPrefix, <<>>))
    IN  IF StartsWith(h, NovelPrefix) /\ ~IsNaN(id)
        THEN NovelDetailPage(id.val) ELSE Null

\* ReadRoute with the two ids taken in the wrong order
ReadRouteSwapped(h) ==
    LET ids == Split(Replace(h, ReadPrefix, <<>>), "/")
        novelId == ParseInt(At(ids, 1))
        episodeId == ParseInt(At(ids, 0))
    IN  IF StartsWith(h, ReadPrefix) /\ ~IsNaN(novelId) /\ ~IsNaN(episodeId)
        THEN ReadNovelPage(novelId.val, episodeId.val) ELSE Null

ReadRoute(h) ==
    LET ids == Split(Replace(h, ReadPrefix, <<>>), "/")
        novelId == ParseInt(At(ids, 0))
        episodeId == ParseInt(At(ids, 1))
    IN  IF StartsWith(h, ReadPrefix) /\ ~IsNaN(novelId) /\ ~IsNaN(episodeId)
        THEN ReadNovelPage(novelId.val, episodeId.val) ELSE Null

\* Router with the `!user` test after the route patterns
RouterRoutesFirst(u, h) ==
    IF NovelRoute(h) # Null THEN NovelRoute(h)
    ELSE IF ReadRoute(h) # Null THEN ReadRoute(h)
    ELSE IF u = Null THEN LoginPage
    ELSE RoleSwitch(u)

Router(u, h) ==
    IF u = Null THEN LoginPage
    ELSE IF NovelRoute(h) # Null THEN NovelRoute(h)
    ELSE IF ReadRoute(h) # Null THEN ReadRoute(h)
    ELSE RoleSwitch(u)

\* what the mounted Router shows in the current state
View == Router(user, hash)

(***************************************************************************)
(* JSON text and window.sessionStorage                                     *)
(***************************************************************************)
Quote(s) == "\"" \o s \o "\""

RECURSIVE NumToStr(_)
NumToStr(n) ==
    IF n < 10 THEN Digits[n + 1] ELSE NumToStr(n \div 10) \o Digits[(n % 10) + 1]

KeyOrder == <<"user_id", "username", "email", "role">>

\* every string that can occur as a property name or a string value
StringPool ==
    Range(KeyOrder) \cup {READER, WRITER, ADMIN, DEVELOPER, "Guest"}
    \cup {InitialMockUsers[i].username : i \in 1..Len(InitialMockUsers)}
    \cup {InitialMockUsers[i].email : i \in 1..Len(InitialMockUsers)}
    \cup {"NewUser", "new@test.com", "nobody@test.com"}

ValueText(k, v) == IF k = "user_id" THEN NumToStr(v) ELSE Quote(v)

RECURSIVE Members(_, _)
Members(o, keys) ==
    IF keys = <<>> THEN <<>>
    ELSE LET k == Head(keys)
             rest == Members(o, Tail(keys))
         IN  IF k \in DOMAIN o
             THEN <<Quote(k), ":", ValueText(k, o[k])>>
                  \o (IF rest = <<>> THEN <<>> ELSE <<",">> \o rest)
             ELSE rest

\* JSON.stringify of an object: properties in insertion order
JSONStringify(o) == <<"{">> \o Members(o, KeyOrder) \o <<"}">>

NumberTexts == {NumToStr(n) : n \in 0..MaxJsonNum}
StringTexts == {Quote(s) : s \in StringPool}
IsNumberText(t) == t \in NumberTexts
IsStringText(t) == t \in StringTexts
ReadValue(t) ==
    IF IsNumberText(t) THEN CHOOSE n \in 0..MaxJsonNum : NumToStr(n) = t
    ELSE CHOOSE s \in StringPool : Quote(s) = t

\* JSON.parse of an object text; ok = FALSE stands for the SyntaxError it throws
JSONParse(t) ==
    LET n == Len(t)
        m == (n - 1) \div 4
        shape == /\ n >= 2 /\ t[1] = "{" /\ t[n] = "}"
                 /\ (n = 2 \/ n = 4 * m + 1)
                 /\ \A j \in 0..(m - 1) :
                       /\ IsStringText(t[2 + 4 * j])
                       /\ t[3 + 4 * j] = ":"
                       /\ IsNumberText(t[4 + 4 * j]) \/ IsStringText(t[4 + 4 * j])
                       /\ j < m - 1 => t[5 + 4 * j] = ","
        keyAt(j) == ReadValue(t[2 + 4 * j])
        keys == {keyAt(j) : j \in 0..(m - 1)}
        last(k) == Max({j \in 0..(m - 1) : keyAt(j) = k})
    IN  IF shape
        THEN [ok |-> TRUE, value |-> [k \in keys |-> ReadValue(t[4 + 4 * last(k)])]]
        ELSE [ok |-> FALSE, value |-> Null]

EmptyStorage == [k \in {} |-> <<>>]
SetItem(store, key, text) ==
    [k \in DOMAIN store \cup {key} |-> IF k = key THEN text ELSE store[k]]
RemoveItem(store, key) == [k \in DOMAIN store \ {key} |-> store[k]]
\* `if (sessionStorage.getItem(key))`: present and not the empty string
HasTruthyItem(store, key) == key \in DOMAIN store /\ store[key] # <<>>

(***************************************************************************)
(* Data access layer: the in-memory fixture service                        *)
(***************************************************************************)
Fulfilled(v) == [phase |-> "fulfilled", value |-> v]
Rejected == [phase |-> "rejected", value |-> Null]

\* Array.prototype.find: the first element that satisfies the test, else undefined
FindByEmail(users, email) ==
    LET hits == {i \in 1..Len(users) : users[i].email = email}
    IN  IF hits = {} THEN Null ELSE users[CHOOSE i \in hits : \A j \in hits : i <= j]

FindByRole(users, r) ==
    LET hits == {i \in 1..Len(users) : users[i].role = r}
    IN  IF hits = {} THEN Null ELSE users[CHOOSE i \in hits : \A j \in hits : i <= j]

\* apiService.login of the fixture service: the promise it returns
MockLogin(users, email) ==
    IF FindByEmail(users, email) # Null THEN Fulfilled(FindByEmail(users, email))
    ELSE IF email = "reader@test.com" THEN Fulfilled(FindByRole(users, READER))
    ELSE IF email = "writer@test.com" THEN Fulfilled(FindByRole(users, WRITER))
    ELSE IF email = "admin@test.com" THEN Fulfilled(FindByRole(users, ADMIN))
    ELSE IF email = "dev@test.com" THEN Fulfilled(FindByRole(users, DEVELOPER))
    ELSE Rejected

\* MockSignupUser without the + 1
MockSignupUserReusesId(users, username, email) ==
    NewUserRecord(Max({users[i].user_id : i \in 1..Len(users)}), username, email, READER)

\* the user object apiService.signup of the fixture service builds and pushes
MockSignupUser(users, username, email) ==
    NewUserRecord(Max({users[i].user_id : i \in 1..Len(users)}) + 1, username, email, READER)

(***************************************************************************)
(* Data access layer: the fetch-based service and the signup endpoint      *)
(***************************************************************************)
\* POST /api/auth/signup against the users table: unique username and email,
\* user_id from the table's sequence, role defaulting to Reader
ApiSignupResponse(table, username, email) ==
    IF \E i \in 1..Len(table) : table[i].username = username \/ table[i].email = email
    THEN [ok |-> FALSE, body |-> Null]
    ELSE [ok |-> TRUE,
          body |-> NewUserRecord(Max({table[i].user_id : i \in 1..Len(table)}) + 1,
                                 username, email, READER)]

\* fetchAPI: a non-2xx response becomes a thrown Error, otherwise the parsed body
FetchAPI(response) == IF ~response.ok THEN Rejected ELSE Fulfilled(response.body)

(***************************************************************************)
(* Auth Session Manager (context/AuthContext.tsx)                          *)
(***************************************************************************)
NoResult == [op |-> "none", ret |-> Null, threw |-> FALSE, overtaken |-> FALSE]

\* an awaited DAL call; overtaken records that logout ran while it was awaited
Call(op, username, email, promise) ==
    [op |-> op, username |-> username, email |-> email,
     phase |-> promise.phase, value |-> promise.value, overtaken |-> FALSE]

InFlight(op, username, email) ==
    [op |-> op, username |-> username, email |-> email,
     phase |-> "inflight", value |-> Null, overtaken |-> FALSE]

\* the awaited call c once its request has been answered
Answered(c, promise) == [c EXCEPT !.phase = promise.phase, !.value = promise.value]

RemoveAt(seq, i) == SubSeq(seq, 1, i - 1) \o SubSeq(seq, i + 1, Len(seq))

\* Settle without the catch clause
SettleWithoutCatch(p) ==
    IF p.phase = "rejected"
    THEN [commit |-> FALSE, ret |-> Null, threw |-> TRUE]
    ELSE [commit |-> p.value # Null, ret |-> p.value, threw |-> FALSE]

\* the try/catch body of login and signup once the awaited promise has settled:
\* whether state is written, what is returned, whether anything escapes
Settle(p) ==
    IF p.phase = "rejected"
    THEN [commit |-> FALSE, ret |-> Null, threw |-> FALSE]
    ELSE [commit |-> p.value # Null, ret |-> p.value, threw |-> FALSE]

\* Finish with a guard that drops the result of a call a logout has overtaken
FinishUnlessOvertaken(op, p) ==
    LET s == Settle(p)
        commit == s.commit /\ ~p.overtaken
    IN  /\ user' = IF commit THEN p.value ELSE user
        /\ sessionStorage' = IF commit
                             THEN SetItem(sessionStorage, "user", JSONStringify(p.value))
                             ELSE sessionStorage
        /\ lastCall' = [op |-> op, ret |-> s.ret, threw |-> s.threw,
                        overtaken |-> p.overtaken]

\* Finish without the sessionStorage.setItem
FinishWithoutSetItem(op, p) ==
    LET s == Settle(p)
    IN  /\ user' = IF s.commit THEN p.value ELSE user
        /\ sessionStorage' = sessionStorage
        /\ lastCall' = [op |-> op, ret |-> s.ret, threw |-> s.threw,
                        overtaken |-> p.overtaken]

\* the continuation after `await`: setUser, sessionStorage.setItem, return
Finish(op, p) ==
    LET s == Settle(p)
    IN  /\ user' = IF s.commit THEN p.value ELSE user
        /\ sessionStorage' = IF s.commit
                             THEN SetItem(sessionStorage, "user", JSONStringify(p.value))
                             ELSE sessionStorage
        /\ lastCall' = [op |-> op, ret |-> s.ret, threw |-> s.threw,
                        overtaken |-> p.overtaken]

\* the restore effect that runs once after the first render
Restored(store) ==
    IF HasTruthyItem(store, "user") THEN JSONParse(store["user"])
    ELSE [ok |-> TRUE, value |-> Null]

RestoreEffect ==
    /\ status = "mounting"
    /\ status' = IF Restored(sessionStorage).ok THEN "ready" ELSE "crashed"
    /\ user' = IF Restored(sessionStorage).ok /\ HasTruthyItem(sessionStorage, "user")
               THEN Restored(sessionStorage).value ELSE user
    /\ UNCHANGED <<dal, sessionStorage, mockUsers, dbUsers, pending, lastCall,
                   locationHash, hash>>
    /\ UNCHANGED dataVars

\* what `await apiService.login(email, pass)` settles to; the fetch-based service
\* exports no login, so the call expression itself throws a TypeError
DalLogin(email) ==
    IF dal = "mock" THEN MockLogin(mockUsers, email) ELSE Rejected

\* login(email, pass) up to its await; a call that throws at once is caught at once
Login(email) ==
    /\ status = "ready"
    /\ Len(pending) < MaxPending
    /\ IF DalLogin(email).phase = "rejected"
       THEN /\ Finish("login", Call("login", "", email, DalLogin(email)))
            /\ UNCHANGED pending
       ELSE /\ pending' = Append(pending, Call("login", "", email, DalLogin(email)))
            /\ UNCHANGED <<user, sessionStorage, lastCall>>
    /\ UNCHANGED <<dal, status, mockUsers, dbUsers, locationHash, hash>>
    /\ UNCHANGED dataVars

\* signup(username, email, pass) up to its await
Signup(username, email) ==
    /\ status = "ready"
    /\ Len(pending) < MaxPending
    /\ IF dal = "mock"
       THEN /\ Len(mockUsers) < Len(InitialMockUsers) + MaxSignups
            /\ mockUsers' = Append(mockUsers, MockSignupUser(mockUsers, username, email))
            /\ pending' = Append(pending,
                    Call("signup", username, email,
                         Fulfilled(MockSignupUser(mockUsers, username, email))))
       ELSE /\ pending' = Append(pending, InFlight("signup", username, email))
            /\ UNCHANGED mockUsers
    /\ UNCHANGED <<dal, status, user, sessionStorage, dbUsers, lastCall,
                   locationHash, hash>>
    /\ UNCHANGED dataVars

\* the signup endpoint serves request i and fetchAPI reads the response
ApiSignup(i) ==
    /\ i \in 1..Len(pending)
    /\ pending[i].phase = "inflight"
    /\ Len(dbUsers) < Len(InitialMockUsers) + MaxSignups
    /\ LET r == ApiSignupResponse(dbUsers, pending[i].username, pending[i].email)
       IN  /\ dbUsers' = IF r.ok THEN Append(dbUsers, r.body) ELSE dbUsers
           /\ pending' = [pending EXCEPT ![i] = Answered(pending[i], FetchAPI(r))]
    /\ UNCHANGED <<dal, status, user, sessionStorage, mockUsers, lastCall,
                   locationHash, hash>>
    /\ UNCHANGED dataVars

\* the request never reaches the endpoint: fetch rejects
TransportFailure(i) ==
    /\ i \in 1..Len(pending)
    /\ pending[i].phase = "inflight"
    /\ pending' = [pending EXCEPT ![i] = Answered(pending[i], Rejected)]
    /\ UNCHANGED <<dal, status, user, sessionStorage, mockUsers, dbUsers, lastCall,
                   locationHash, hash>>
    /\ UNCHANGED dataVars

\* the awaited promise i has settled: the rest of login or signup runs
Resume(i) ==
    /\ status = "ready"
    /\ i \in 1..Len(pending)
    /\ pending[i].phase \in {"fulfilled", "rejected"}
    /\ Finish(pending[i].op, pending[i])
    /\ pending' = RemoveAt(pending, i)
    /\ UNCHANGED <<dal, status, mockUsers, dbUsers, locationHash, hash>>
    /\ UNCHANGED dataVars

\* Logout without the setUser(null)
LogoutKeepsUser ==
    /\ status = "ready"
    /\ sessionStorage' = RemoveItem(sessionStorage, "user")
    /\ locationHash' = <<>>
    /\ lastCall' = [op |-> "logout", ret |-> Null, threw |-> FALSE, overtaken |-> FALSE]
    /\ pending' = [i \in 1..Len(pending) |-> [pending[i] EXCEPT !.overtaken = TRUE]]
    /\ UNCHANGED <<dal, status, user, mockUsers, dbUsers, hash>>
    /\ UNCHANGED dataVars

\* Logout without the sessionStorage.removeItem
LogoutKeepsSession ==
    /\ status = "ready"
    /\ user' = Null
    /\ locationHash' = <<>>
    /\ lastCall' = [op |-> "logout", ret |-> Null, threw |-> FALSE, overtaken |-> FALSE]
    /\ pending' = [i \in 1..Len(pending) |-> [pending[i] EXCEPT !.overtaken = TRUE]]
    /\ UNCHANGED <<dal, status, sessionStorage, mockUsers, dbUsers, hash>>
    /\ UNCHANGED dataVars

Logout ==
    /\ status = "ready"
    /\ user' = Null
    /\ sessionStorage' = RemoveItem(sessionStorage, "user")
    /\ locationHash' = <<>>
    /\ lastCall' = [op |-> "logout", ret |-> Null, threw |-> FALSE, overtaken |-> FALSE]
    /\ pending' = [i \in 1..Len(pending) |-> [pending[i] EXCEPT !.overtaken = TRUE]]
    /\ UNCHANGED <<dal, status, mockUsers, dbUsers, hash>>
    /\ UNCHANGED dataVars

\* the setUser the context hands out
SetUser(v) ==
    /\ status = "ready"
    /\ user # v
    /\ user' = v
    /\ UNCHANGED <<authVars, locationHash, hash>>
    /\ UNCHANGED dataVars

\* the address bar changes; the hashchange event is delivered later
Navigate(h) ==
    /\ locationHash # h
    /\ locationHash' = h
    /\ UNCHANGED <<authVars, user, hash>>
    /\ UNCHANGED dataVars

HandleHashChange ==
    /\ status = "ready"
    /\ hash # locationHash
    /\ hash' = locationHash
    /\ UNCHANGED <<authVars, user, locationHash>>
    /\ UNCHANGED dataVars

\* a page reload: modules and components start over, storage and address stay
Reload ==
    /\ status # "mounting"
    /\ status' = "mounting"
    /\ user' = Null
    /\ pending' = <<>>
    /\ lastCall' = NoResult
    /\ mockUsers' = InitialMockUsers
    /\ hash' = locationHash
    /\ UNCHANGED <<dal, sessionStorage, dbUsers, locationHash>>
    /\ UNCHANGED dataVars

(***************************************************************************)
(* Fixture data (services/mockData.ts).  Timestamps are whole weeks        *)
(* relative to the moment the module is loaded.                            *)
(***************************************************************************)
MockNovelCount == 12
EpisodesPerNovel == 5

mockNovels ==
    [x \in 1..MockNovelCount |->
        LET i == x - 1
        IN  [novel_id |-> 101 + i,
             tags |-> {"Fantasy", "Adventure", "Sci-Fi"},
             views |-> 16458 + i * 123,
             likes |-> 2010 + i * 45,
             author |-> [user_id |-> 2, username |-> "WriterJane"]]]

mockEpisodes ==
    [x \in 1..(MockNovelCount * EpisodesPerNovel) |->
        LET novel == mockNovels[((x - 1) \div EpisodesPerNovel) + 1]
            i == (x - 1) % EpisodesPerNovel
        IN  [episode_id |-> novel.novel_id * 100 + i + 1,
             novel_id |-> novel.novel_id,
             is_locked |-> i > 2,
             price |-> 10,
             release_date |-> 0 - (5 - i)]]

(***************************************************************************)
(* Array helpers                                                           *)
(***************************************************************************)
Min(a, b) == IF a <= b THEN a ELSE b

\* Array.prototype.find, given the elements passing the test in array order:
\* the first of them, else undefined
FindFirst(hits) == IF hits = <<>> THEN Null ELSE hits[1]

\* Array.prototype.slice(from, to) with 0 <= from <= to
Slice(seq, from, to) == SubSeq(seq, from + 1, Min(to, Len(seq)))

(***************************************************************************)
(* Data access layer: reads of the fixture service                         *)
(***************************************************************************)
RecommendedSliceEnd == 6

MockGetRecommendedNovels == Fulfilled(Slice(mockNovels, 0, RecommendedSliceEnd))

MockGetNovelById(id) == Fulfilled(FindFirst(SelectSeq(mockNovels, LAMBDA n : n.novel_id = id)))

MockGetEpisodesByNovelId(novelId) ==
    Fulfilled(SelectSeq(mockEpisodes, LAMBDA e : e.novel_id = novelId))

MockGetEpisode(novelId, episodeId) ==
    Fulfilled(FindFirst(SelectSeq(mockEpisodes,
                  LAMBDA e : e.novel_id = novelId /\ e.episode_id = episodeId)))

MockGetWriterNovels(writerId) ==
    Fulfilled(SelectSeq(mockNovels, LAMBDA n : n.author.user_id = writerId))

(***************************************************************************)
(* API routes.  fault tells what goes wrong on the way: nothing, the       *)
(* database query throwing ("db"), or the request not getting through      *)
(* ("network").  Rows with equal sort keys keep their table order.         *)
(***************************************************************************)
Faults == {"none", "db", "network"}

MethodNotAllowed == [ok |-> FALSE, status |-> 405, body |-> Null]
ServerError == [ok |-> FALSE, status |-> 500, body |-> Null]
NotFound == [ok |-> FALSE, status |-> 404, body |-> Null]
Ok(body) == [ok |-> TRUE, status |-> 200, body |-> body]

RECURSIVE OrderByReleaseDateAsc(_)
OrderByReleaseDateAsc(rows) ==
    IF rows = <<>> THEN <<>>
    ELSE LET sorted == OrderByReleaseDateAsc(SubSeq(rows, 1, Len(rows) - 1))
             row == rows[Len(rows)]
             k == Cardinality({i \in 1..Len(sorted) :
                                  sorted[i].release_date <= row.release_date})
         IN  SubSeq(sorted, 1, k) \o <<row>> \o SubSeq(sorted, k + 1, Len(sorted))

RECURSIVE OrderByViewsDesc(_)
OrderByViewsDesc(rows) ==
    IF rows = <<>> THEN <<>>
    ELSE LET sorted == OrderByViewsDesc(SubSeq(rows, 1, Len(rows) - 1))
             row == rows[Len(rows)]
             k == Cardinality({i \in 1..Len(sorted) : sorted[i].views >= row.views})
         IN  SubSeq(sorted, 1, k) \o <<row>> \o SubSeq(sorted, k + 1, Len(sorted))

\* EpisodesHandler without the orderBy
EpisodesHandlerUnordered(method, novelId, table, fault) ==
    IF method # "GET" THEN MethodNotAllowed
    ELSE IF fault = "db" THEN ServerError
    ELSE Ok(SelectSeq(table, LAMBDA e : e.novel_id = novelId))

\* EpisodesHandler without the where clause
EpisodesHandlerUnfiltered(method, novelId, table, fault) ==
    IF method # "GET" THEN MethodNotAllowed
    ELSE IF fault = "db" THEN ServerError
    ELSE Ok(OrderByReleaseDateAsc(table))

\* the episodes route: GET /api/novels/[novelId]/episodes
EpisodesHandler(method, novelId, table, fault) ==
    IF method # "GET" THEN MethodNotAllowed
    ELSE IF fault = "db" THEN ServerError
    ELSE Ok(OrderByReleaseDateAsc(SelectSeq(table, LAMBDA e : e.novel_id = novelId)))

NovelsTake == 12

\* the first author is the primary one; a novel without authors gets user_id 0
FormatNovel(n) ==
    [novel_id |-> n.novel_id, tags |-> n.tags, views |-> n.views, likes |-> n.likes,
     authors |-> n.authors,
     author |-> IF n.authors # <<>>
                THEN [user_id |-> n.authors[1], username |-> "author"]
                ELSE [user_id |-> 0, username |-> "Unknown"]]

\* the novels route: GET /api/novels[?category=...]; category "" stands for none
NovelsHandler(method, category, table, fault) ==
    IF method # "GET" THEN MethodNotAllowed
    ELSE IF fault = "db" THEN ServerError
    ELSE LET rows == IF category # ""
                     THEN SelectSeq(table, LAMBDA n : category \in n.tags)
                     ELSE table
             page == Slice(OrderByViewsDesc(rows), 0, NovelsTake)
         IN  Ok([i \in 1..Len(page) |-> FormatNovel(page[i])])

\* the novel route: GET /api/novels/[id]; a missing novel is a non-2xx response
NovelByIdHandler(method, id, table, fault) ==
    IF method # "GET" THEN MethodNotAllowed
    ELSE IF fault = "db" THEN ServerError
    ELSE LET row == FindFirst(SelectSeq(table, LAMBDA n : n.novel_id = id))
         IN  IF row = Null THEN NotFound ELSE Ok(FormatNovel(row))

(***************************************************************************)
(* Data access layer: reads of the fetch-based service                     *)
(***************************************************************************)
\* fetchAPI(url) with the default method: fetch itself rejects on a network fault
Fetch(response, fault) == IF fault = "network" THEN Rejected ELSE FetchAPI(response)

\* promise.then(f) for a function f that does not throw; result is f(promise.value)
Then(promise, result) ==
    IF promise.phase = "fulfilled" THEN Fulfilled(result) ELSE promise

RemoteGetRecommendedNovels(fault) ==
    Fetch(NovelsHandler("GET", "Recommended", dbNovels, fault), fault)

RemoteGetNovelById(id, fault) ==
    Fetch(NovelByIdHandler("GET", id, dbNovels, fault), fault)

RemoteGetEpisodesByNovelId(novelId, fault) ==
    Fetch(EpisodesHandler("GET", novelId, dbEpisodes, fault), fault)

RemoteGetEpisode(novelId, episodeId, fault) ==
    LET eps == RemoteGetEpisodesByNovelId(novelId, fault)
    IN  Then(eps, FindFirst(SelectSeq(eps.value, LAMBDA e : e.episode_id = episodeId)))

RemoteGetWriterNovels(writerId, fault) ==
    LET novels == Fetch(NovelsHandler("GET", "", dbNovels, fault), fault)
    IN  Then(novels, SelectSeq(novels.value, LAMBDA n : n.author.user_id = writerId))

(***************************************************************************)
(* Reads as the views issue them                                           *)
(***************************************************************************)
NoRead == [op |-> "none", a |-> 0, b |-> 0, fault |-> "none",
           phase |-> "none", value |-> Null]

Read(op, a, b, fault, promise) ==
    /\ lastRead' = [op |-> op, a |-> a, b |-> b, fault |-> fault,
                    phase |-> promise.phase, value |-> promise.value]
    /\ UNCHANGED <<dal, status, user, sessionStorage, mockUsers, dbUsers, pending,
                   lastCall, locationHash, hash, dbNovels, dbEpisodes, comments, forest>>

GetRecommendedNovels(fault) ==
    Read("getRecommendedNovels", 0, 0, IF dal = "mock" THEN "none" ELSE fault,
         IF dal = "mock" THEN MockGetRecommendedNovels
         ELSE RemoteGetRecommendedNovels(fault))

GetNovelById(id, fault) ==
    Read("getNovelById", id, 0, IF dal = "mock" THEN "none" ELSE fault,
         IF dal = "mock" THEN MockGetNovelById(id) ELSE RemoteGetNovelById(id, fault))

GetEpisodesByNovelId(novelId, fault) ==
    Read("getEpisodesByNovelId", novelId, 0, IF dal = "mock" THEN "none" ELSE fault,
         IF dal = "mock" THEN MockGetEpisodesByNovelId(novelId)
         ELSE RemoteGetEpisodesByNovelId(novelId, fault))

GetEpisode(novelId, episodeId, fault) ==
    Read("getEpisode", novelId, episodeId, IF dal = "mock" THEN "none" ELSE fault,
         IF dal = "mock" THEN MockGetEpisode(novelId, episodeId)
         ELSE RemoteGetEpisode(novelId, episodeId, fault))

GetWriterNovels(writerId, fault) ==
    Read("getWriterNovels", writerId, 0, IF dal = "mock" THEN "none" ELSE fault,
         IF dal = "mock" THEN MockGetWriterNovels(writerId)
         ELSE RemoteGetWriterNovels(writerId, fault))

(***************************************************************************)
(* Comment threading: a flat list of the comments of one episode becomes   *)
(* a forest.  A comment is its id and its parent's id (NoParent for none). *)
(***************************************************************************)
NoParent == 0

Comment(id, parent) == [comment_id |-> id, parent_comment_id |-> parent]

\* the comment with its direct children attached as replies, in list order,
\* each with its own children attached in the same way
RECURSIVE Attach(_, _)
Attach(c, cs) ==
    LET children == SelectSeq(cs, LAMBDA k : k.parent_comment_id = c.comment_id)
    IN  [comment_id |-> c.comment_id, parent_comment_id |-> c.parent_comment_id,
         replies |-> [i \in 1..Len(children) |-> Attach(children[i], cs)]]

\* Thread that shows a comment whose parent is not in the list as a root
ThreadKeepsOrphans(cs) ==
    LET ids == {cs[i].comment_id : i \in 1..Len(cs)}
        roots == SelectSeq(cs, LAMBDA c : c.parent_comment_id \notin ids)
    IN  [i \in 1..Len(roots) |-> Attach(roots[i], cs)]

\* roots are the comments without a parent; a comment whose parent is not found
\* is attached nowhere
Thread(cs) ==
    LET roots == SelectSeq(cs, LAMBDA c : c.parent_comment_id = NoParent)
    IN  [i \in 1..Len(roots) |-> Attach(roots[i], cs)]

NotThreaded == [done |-> FALSE, roots |-> <<>>]

\* the view threads the comments it holds; doing so again rebuilds the forest
ThreadComments ==
    /\ forest' = [done |-> TRUE, roots |-> Thread(comments)]
    /\ comments' = comments
    /\ UNCHANGED <<dal, status, user, sessionStorage, mockUsers, dbUsers, pending,
                   lastCall, locationHash, hash, dbNovels, dbEpisodes, lastRead>>

\* what the data variables hold while only the session is looked at
DataAtRest ==
    /\ dbNovels = <<>>
    /\ dbEpisodes = <<>>
    /\ lastRead = NoRead
    /\ comments = <<>>
    /\ forest = NotThreaded

(***************************************************************************)
(* The session as a whole                                                  *)
(***************************************************************************)
Emails == {"reader@test.com", "new@test.com", "nobody@test.com"}
Usernames == {"ReaderJoe", "NewUser"}
SignupEmails == {"reader@test.com", "new@test.com"}
Guest == NewUserRecord(9, "Guest", "nobody@test.com", "Guest")
SetUserValues == {Null, InitialMockUsers[2]}
SessionHashes == {<<>>, NovelPrefix \o <<"1">>}
StoredTexts == {JSONStringify(InitialMockUsers[3]), <<>>, <<"{">>}
InitialStorages ==
    {EmptyStorage} \cup {SetItem(EmptyStorage, "user", t) : t \in StoredTexts}

Init ==
    /\ dal \in {"mock", "remote"}
    /\ status = "mounting"
    /\ user = Null
    /\ sessionStorage \in InitialStorages
    /\ mockUsers = InitialMockUsers
    /\ dbUsers = InitialMockUsers
    /\ pending = <<>>
    /\ lastCall = NoResult
    /\ locationHash \in SessionHashes
    /\ hash = locationHash
    /\ DataAtRest

Next ==
    \/ RestoreEffect
    \/ \E e \in Emails : Login(e)
    \/ \E n \in Usernames, e \in SignupEmails : Signup(n, e)
    \/ \E i \in 1..MaxPending : ApiSignup(i)
    \/ \E i \in 1..MaxPending : TransportFailure(i)
    \/ \E i \in 1..MaxPending : Resume(i)
    \/ Logout
    \/ \E v \in SetUserValues : SetUser(v)
    \/ \E h \in SessionHashes : Navigate(h)
    \/ HandleHashChange
    \/ Reload

Spec == Init /\ [][Next]_vars

(***************************************************************************)
(* The router on its own: the page is opened at any fragment of up to      *)
(* MaxTail characters after a route prefix, with any identity restored     *)
(***************************************************************************)
TailAlphabet == {"0", "1", "2", "a", "-", "/"}
Tails == UNION {[1..n -> TailAlphabet] : n \in 0..MaxTail}
RouterHashes ==
    {<<>>} \cup {p \o t : p \in {NovelPrefix, ReadPrefix, <<"#", "/">>}, t \in Tails}
RouterUsers == Range(InitialMockUsers) \cup {Guest}

\* the address bar changes to h and the hashchange handler runs
HashChange(h) ==
    /\ status = "ready"
    /\ hash # h
    /\ locationHash' = h
    /\ hash' = h
    /\ UNCHANGED <<authVars, user>>
    /\ UNCHANGED dataVars

RouterInit ==
    /\ dal = "mock"
    /\ status = "mounting"
    /\ user = Null
    /\ sessionStorage \in {SetItem(EmptyStorage, "user", JSONStringify(u)) : u \in RouterUsers}
    /\ mockUsers = InitialMockUsers
    /\ dbUsers = InitialMockUsers
    /\ pending = <<>>
    /\ lastCall = NoResult
    /\ locationHash \in RouterHashes
    /\ hash = locationHash
    /\ DataAtRest

RouterNext ==
    \/ RestoreEffect
    \/ \E h \in SessionHashes : HashChange(h)
    \/ HandleHashChange
    \/ \E v \in RouterUsers : SetUser(v)
    \/ Logout

RouterSpec == RouterInit /\ [][RouterNext]_vars

(***************************************************************************)
(* Properties of the router                                                *)
(***************************************************************************)
AfterPrefix(h, p) == SubSeq(h, Len(p) + 1, Len(h))
AllDigits(seg) == seg # <<>> /\ \A i \in 1..Len(seg) : IsDigit(seg[i])
WellFormedId(seg) == AllDigits(seg) /\ DecimalValue(seg) > 0
RouteKinds == {"NovelDetailPage", "ReadNovelPage"}

\* the per-role landing view the design prescribes
LandingView(u) ==
    IF RoleOf(u) = WRITER THEN WriterDashboard
    ELSE IF RoleOf(u) = ADMIN THEN AdminDashboard
    ELSE IF RoleOf(u) = DEVELOPER THEN DeveloperDashboard
    ELSE HomePage

\* C1: while currentUser is absent the Router renders the login view, whatever
\* the hash is; no landing, novel-detail or reading view is rendered.
C1_AbsentUserSeesLogin == user = Null => View = LoginPage

C1_Witness ==
    /\ status = "ready"
    /\ lastCall.op = "logout"
    /\ user = Null
    /\ hash = ReadPrefix \o <<"1", "/", "2">>
    /\ View = LoginPage

\* C8: with an identity present, '#/novel/<id>' with a well-formed positive id
\* renders the novel-detail view for that id and '#/read/<n>/<e>' with two
\* well-formed positive ids renders the reading view for that pair, for every role.
C8_RouteBeforeRole ==
    user # Null =>
        /\ (StartsWith(hash, NovelPrefix) /\ WellFormedId(AfterPrefix(hash, NovelPrefix)))
              => View = NovelDetailPage(DecimalValue(AfterPrefix(hash, NovelPrefix)))
        /\ StartsWith(hash, ReadPrefix) =>
              LET rest == AfterPrefix(hash, ReadPrefix)
              IN  \A i \in 1..Len(rest) :
                     (/\ rest[i] = "/"
                      /\ WellFormedId(SubSeq(rest, 1, i - 1))
                      /\ WellFormedId(SubSeq(rest, i + 1, Len(rest))))
                     => View = ReadNovelPage(DecimalValue(SubSeq(rest, 1, i - 1)),
                                             DecimalValue(SubSeq(rest, i + 1, Len(rest))))

C8_Witness ==
    /\ user # Null
    /\ RoleOf(user) = WRITER
    /\ hash = ReadPrefix \o <<"1", "/", "2">>
    /\ View = ReadNovelPage(1, 2)

\* a route prefix followed by an id segment that is not a well-formed positive integer
MalformedRoute(h) ==
    \/ StartsWith(h, NovelPrefix) /\ ~WellFormedId(AfterPrefix(h, NovelPrefix))
    \/ /\ StartsWith(h, ReadPrefix)
       /\ LET segs == Split(AfterPrefix(h, ReadPrefix), "/")
          IN  \/ Len(segs) < 2
              \/ ~WellFormedId(segs[1])
              \/ ~WellFormedId(segs[2])

\* C9: with an identity present, a '#/novel/' or '#/read/' hash whose id segment is
\* not a well-formed positive integer falls through to the role's landing view.
C9_MalformedFallsThrough ==
    (user # Null /\ MalformedRoute(hash)) => View = LandingView(user)

\* C10: with an identity present and no route pattern matching, the view is a
\* function of the role alone: Reader home feed, Writer, Admin and Developer their
\* dashboards, any other role the home feed.
C10_RoleDispatch ==
    user # Null =>
        /\ (~StartsWith(hash, NovelPrefix) /\ ~StartsWith(hash, ReadPrefix))
              => View = LandingView(user)
        /\ View.kind \notin RouteKinds => View = LandingView(user)

C10_Witness ==
    /\ user # Null
    /\ RoleOf(user) = ADMIN
    /\ hash = <<>>
    /\ View = AdminDashboard

(***************************************************************************)
(* Properties of the Auth Session Manager and the data access layer        *)
(***************************************************************************)
\* the user store of the data access layer in use
Store == IF dal = "mock" THEN mockUsers ELSE dbUsers
HasEmail(users, email) == \E i \in 1..Len(users) : users[i].email = email
HasUsername(users, name) == \E i \in 1..Len(users) : users[i].username = name
UserIds(users) == {users[i].user_id : i \in 1..Len(users)}

\* C2: after logout() from any state currentUser is absent, the session store has
\* no entry under 'user' and the hash is reset; the next Router evaluation gives
\* the login view and the startup restore finds no user.
C2_LogoutClears ==
    [][Logout => /\ user' = Null
                 /\ "user" \notin DOMAIN sessionStorage'
                 /\ locationHash' = <<>>
                 /\ Router(user', hash') = LoginPage
                 /\ Restored(sessionStorage') = [ok |-> TRUE, value |-> Null]]_vars

C2_Witness ==
    /\ lastCall.op = "logout"
    /\ user = Null
    /\ "user" \notin DOMAIN sessionStorage
    /\ locationHash = <<>>
    /\ hash = NovelPrefix \o <<"1">>
    /\ Len(pending) > 0

\* a step in which a login or signup learns that its DAL call failed
FailureSettles ==
    \/ \E e \in Emails : Login(e) /\ DalLogin(e).phase = "rejected"
    \/ \E i \in 1..MaxPending : Resume(i) /\ pending[i].phase = "rejected"

\* C3: when the DAL call of login or signup fails, currentUser and the stored
\* session are what they were, the caller receives null and nothing is thrown.
C3_FailureLeavesState ==
    [][FailureSettles => /\ user' = user
                         /\ sessionStorage' = sessionStorage
                         /\ lastCall'.op \in {"login", "signup"}
                         /\ lastCall'.ret = Null
                         /\ ~lastCall'.threw]_vars

C3_Witness ==
    /\ dal = "remote"
    /\ lastCall.op = "signup" /\ lastCall.ret = Null /\ ~lastCall.threw
    /\ user = InitialMockUsers[3]
    /\ HasTruthyItem(sessionStorage, "user")
    /\ sessionStorage["user"] = JSONStringify(InitialMockUsers[3])

\* C4: for every email that matches a user in the store, the login the Auth
\* Session Manager delegates to returns a user of the store with that email.
C4_LoginReturnsMatchingUser ==
    [][\A e \in Emails :
          (Login(e) /\ HasEmail(Store, e))
          => /\ Len(pending') = Len(pending) + 1
             /\ pending'[Len(pending')].phase = "fulfilled"
             /\ pending'[Len(pending')].value \in Range(Store)
             /\ pending'[Len(pending')].value.email = e]_vars

\* C5: when login or signup succeeds with user U, currentUser is U and the session
\* store holds the serialization of U under 'user', from which U can be read back.
C5_SuccessCommits ==
    [][\A i \in 1..MaxPending :
          (Resume(i) /\ pending[i].phase = "fulfilled" /\ pending[i].value # Null)
          => /\ user' = pending[i].value
             /\ "user" \in DOMAIN sessionStorage'
             /\ sessionStorage'["user"] = JSONStringify(pending[i].value)
             /\ JSONParse(sessionStorage'["user"]) = [ok |-> TRUE, value |-> pending[i].value]
             /\ lastCall'.ret = pending[i].value]_vars

C5_Witness ==
    /\ lastCall.op = "login"
    /\ lastCall.ret = InitialMockUsers[1]
    /\ user = InitialMockUsers[1]
    /\ HasTruthyItem(sessionStorage, "user")
    /\ JSONParse(sessionStorage["user"]).value = InitialMockUsers[1]

\* C6: signup with a username or email that already belongs to a user fails and
\* leaves the user store unchanged.
C6_DuplicateSignupRejected ==
    [][/\ \A n \in Usernames, e \in SignupEmails :
            (Signup(n, e) /\ dal = "mock" /\ (HasUsername(mockUsers, n) \/ HasEmail(mockUsers, e)))
            => /\ mockUsers' = mockUsers
               /\ pending'[Len(pending')].phase = "rejected"
       /\ \A i \in 1..MaxPending :
            (/\ ApiSignup(i)
             /\ HasUsername(dbUsers, pending[i].username) \/ HasEmail(dbUsers, pending[i].email))
            => /\ dbUsers' = dbUsers
               /\ pending'[i].phase = "rejected"]_vars

\* a step in which a signup adds to the user store
SignupAdds(old, new) ==
    /\ Len(new) = Len(old) + 1
    /\ SubSeq(new, 1, Len(old)) = old
    /\ \A id \in UserIds(old) : new[Len(new)].user_id > id
    /\ new[Len(new)].role = READER

\* C7: every successful signup adds exactly one user, with a user_id greater than
\* every earlier one and role Reader; all user_ids in the store stay distinct.
C7_SignupAllocatesFreshId ==
    /\ [](\A i, j \in 1..Len(Store) : Store[i].user_id = Store[j].user_id => i = j)
    /\ [][/\ (\E n \in Usernames, e \in SignupEmails : Signup(n, e) /\ dal = "mock")
             => SignupAdds(mockUsers, mockUsers')
          /\ (\E i \in 1..MaxPending : ApiSignup(i) /\ pending'[i].phase = "fulfilled")
             => SignupAdds(dbUsers, dbUsers')]_vars

C7_Witness ==
    /\ dal = "mock"
    /\ Len(mockUsers) = Len(InitialMockUsers) + 2
    /\ Len(pending) = 2
    /\ pending[1].op = "signup" /\ pending[2].op = "signup"
    /\ pending[1].value.user_id = 5 /\ pending[2].value.user_id = 6

\* the session store holds exactly the serialization of u, or nothing when u is absent
SessionHolds(store, u) ==
    IF u = Null THEN "user" \notin DOMAIN store
    ELSE "user" \in DOMAIN store /\ store["user"] = JSONStringify(u)

\* C15: logout does not cancel a login or signup in flight: when that call later
\* resolves with a user, that user becomes currentUser and is stored (last write
\* wins); when the call resolves first and logout runs after it, the session ends
\* unauthenticated with no stored entry.
C15_LastWriteWins ==
    [][/\ Logout => /\ Len(pending') = Len(pending)
                    /\ \A i \in 1..Len(pending) :
                          /\ pending'[i].phase = pending[i].phase
                          /\ pending'[i].value = pending[i].value
       /\ \A i \in 1..MaxPending :
             (/\ Resume(i)
              /\ pending[i].overtaken
              /\ pending[i].phase = "fulfilled"
              /\ pending[i].value # Null)
             => /\ user' = pending[i].value
                /\ SessionHolds(sessionStorage', pending[i].value)
       /\ (Logout /\ lastCall.op \in {"login", "signup"} /\ lastCall.ret # Null)
             => /\ user' = Null
                /\ SessionHolds(sessionStorage', Null)]_vars

C15_Witness ==
    /\ lastCall.op = "login"
    /\ lastCall.overtaken
    /\ lastCall.ret = InitialMockUsers[1]
    /\ user = InitialMockUsers[1]
    /\ SessionHolds(sessionStorage, InitialMockUsers[1])
    /\ pending = <<>>

\* C16: at startup currentUser is absent and the session store is read once; a
\* stored serialized user becomes currentUser; when the entry is missing, empty or
\* cannot be restored, currentUser stays absent and startup does not fail.
C16_RestoreNeverFails ==
    /\ [](status = "mounting" => user = Null)
    /\ [][RestoreEffect =>
             /\ status' = "ready"
             /\ sessionStorage' = sessionStorage
             /\ IF HasTruthyItem(sessionStorage, "user") /\ JSONParse(sessionStorage["user"]).ok
                THEN user' = JSONParse(sessionStorage["user"]).value
                ELSE user' = Null]_vars

\* the stored entry is missing or is text the manager itself could have written
ManagedEntry(store) ==
    \/ "user" \notin DOMAIN store
    \/ LET parsed == JSONParse(store["user"])
       IN  parsed.ok /\ JSONStringify(parsed.value) = store["user"]

IsSetUserStep == \E v \in SetUserValues : SetUser(v)

\* a step that writes currentUser and the store together
WritesSession ==
    \/ Logout
    \/ \E i \in 1..MaxPending :
          Resume(i) /\ pending[i].phase = "fulfilled" /\ pending[i].value # Null

EpisodeNovelIds == {101, 102}
ReleaseDates == {0 - 3, 0 - 2, 0 - 1}
EpisodeRow(id, novelId, date) ==
    [episode_id |-> id, novel_id |-> novelId, is_locked |-> FALSE, price |-> 0,
     release_date |-> date]
EpisodeTables ==
    UNION {{[i \in 1..n |-> EpisodeRow(i, f[i][1], f[i][2])] :
               f \in [1..n -> EpisodeNovelIds \X ReleaseDates]} : n \in 0..MaxEpisodes}
QueriedNovelIds == {101, 102, 999}
QueriedEpisodeIds == {1, 2, 10101, 10202, 7}

EpisodeInit ==
    /\ dal \in {"mock", "remote"}
    /\ status = "ready"
    /\ user = InitialMockUsers[1]
    /\ sessionStorage = SetItem(EmptyStorage, "user", JSONStringify(InitialMockUsers[1]))
    /\ mockUsers = InitialMockUsers
    /\ dbUsers = InitialMockUsers
    /\ pending = <<>>
    /\ lastCall = NoResult
    /\ locationHash = NovelPrefix \o <<"1">>
    /\ hash = locationHash
    /\ dbNovels = <<>>
    /\ dbEpisodes \in IF dal = "mock" THEN {<<>>} ELSE EpisodeTables
    /\ lastRead = NoRead
    /\ comments = <<>>
    /\ forest = NotThreaded

EpisodeNext ==
    \/ \E n \in QueriedNovelIds, f \in Faults : GetEpisodesByNovelId(n, f)
    \/ \E n \in QueriedNovelIds, e \in QueriedEpisodeIds, f \in Faults : GetEpisode(n, e, f)

EpisodeSpec == EpisodeInit /\ [][EpisodeNext]_vars

\* the episodes the data access layer in use reads from
EpisodeStore == IF dal = "mock" THEN mockEpisodes ELSE dbEpisodes

\* C11: getEpisodesByNovelId(N) returns exactly the episodes whose novel_id is N,
\* each once, in ascending release_date order, for the fixture service and for
\* the fetch-based service behind the episodes route.
C11_EpisodesOfNovelAscending ==
    (lastRead.op = "getEpisodesByNovelId" /\ lastRead.fault = "none") =>
        /\ lastRead.phase = "fulfilled"
        /\ LET r == lastRead.value
               mine == {i \in 1..Len(EpisodeStore) : EpisodeStore[i].novel_id = lastRead.a}
           IN  /\ Len(r) = Cardinality(mine)
               /\ \A i \in mine : \E k \in 1..Len(r) : r[k] = EpisodeStore[i]
               /\ \A k \in 1..Len(r) : r[k].novel_id = lastRead.a
               /\ \A k \in 1..(Len(r) - 1) : r[k].release_date <= r[k + 1].release_date

C11_Witness ==
    /\ dal = "remote"
    /\ lastRead.op = "getEpisodesByNovelId"
    /\ lastRead.a = 101
    /\ lastRead.phase = "fulfilled"
    /\ Len(dbEpisodes) = 3
    /\ dbEpisodes[1].novel_id = 101 /\ dbEpisodes[2].novel_id = 102
    /\ dbEpisodes[3].novel_id = 101
    /\ dbEpisodes[1].release_date > dbEpisodes[3].release_date
    /\ Len(lastRead.value) = 2

\* C12: getEpisode(novelId, episodeId) returns an episode only if its episode_id is
\* episodeId and its novel_id is novelId; when the episode belongs to another novel
\* or does not exist the result is absent, not an error.
C12_EpisodeOfItsNovelOnly ==
    (lastRead.op = "getEpisode" /\ lastRead.fault = "none") =>
        /\ lastRead.phase = "fulfilled"
        /\ LET matches == {i \in 1..Len(EpisodeStore) :
                              /\ EpisodeStore[i].episode_id = lastRead.b
                              /\ EpisodeStore[i].novel_id = lastRead.a}
           IN  IF matches = {} THEN lastRead.value = Null
               ELSE \E i \in matches : lastRead.value = EpisodeStore[i]

C12_Witness ==
    /\ dal = "remote"
    /\ lastRead.op = "getEpisode"
    /\ lastRead.fault = "none"
    /\ lastRead.phase = "fulfilled"
    /\ lastRead.value = Null
    /\ \E i \in 1..Len(dbEpisodes) :
          dbEpisodes[i].episode_id = lastRead.b /\ dbEpisodes[i].novel_id # lastRead.a

(***************************************************************************)
(* Novel reads on their own: novels tables of up to MaxNovels rows behind  *)
(* the routes, the fixture novels behind the fixture service               *)
(***************************************************************************)
\* the authors of a novel, primary author first
AuthorLists == {<<>>, <<2>>, <<3, 2>>}

\* n novels; the first k have the authors first, the others the authors rest;
\* views rise or fall with the insertion order; every other novel is tagged Recommended
NovelTable(n, k, first, rest, rising) ==
    [i \in 1..n |->
        [novel_id |-> 200 + i,
         tags |-> IF i % 2 = 1 THEN {"Recommended", "Fantasy"} ELSE {"Fantasy"},
         views |-> IF rising THEN 100 * i ELSE 100 * (n + 1 - i),
         likes |-> 10 * ((3 * i) % 7),
         authors |-> IF i <= k THEN first ELSE rest]]

NovelTables ==
    {NovelTable(n, k, first, rest, rising) :
        n \in 0..MaxNovels, k \in 0..MaxNovels, first \in AuthorLists,
        rest \in AuthorLists, rising \in BOOLEAN}

QueriedIds == {101, 112, 201, 213, 999}
QueriedWriters == {2, 3, 4}

NovelInit ==
    /\ dal \in {"mock", "remote"}
    /\ status = "ready"
    /\ user = InitialMockUsers[2]
    /\ sessionStorage = SetItem(EmptyStorage, "user", JSONStringify(InitialMockUsers[2]))
    /\ mockUsers = InitialMockUsers
    /\ dbUsers = InitialMockUsers
    /\ pending = <<>>
    /\ lastCall = NoResult
    /\ locationHash = <<>>
    /\ hash = locationHash
    /\ dbNovels \in IF dal = "mock" THEN {<<>>} ELSE NovelTables
    /\ dbEpisodes = <<>>
    /\ lastRead = NoRead
    /\ comments = <<>>
    /\ forest = NotThreaded

NovelNext ==
    \/ \E f \in Faults : GetRecommendedNovels(f)
    \/ \E id \in QueriedIds, f \in Faults : GetNovelById(id, f)
    \/ \E w \in QueriedWriters, f \in Faults : GetWriterNovels(w, f)

NovelSpec == NovelInit /\ [][NovelNext]_vars

\* the novels the data access layer in use reads from, as the client sees a novel
NovelStore ==
    IF dal = "mock" THEN mockNovels
    ELSE [i \in 1..Len(dbNovels) |-> FormatNovel(dbNovels[i])]

\* C13: getNovelById(id) resolves to the novel with that id, and resolves to absent,
\* not to an error, when no novel has that id; for the fixture service and for the
\* fetch-based service, where a missing novel comes back as a non-2xx response.
C13_MissingNovelIsAbsent ==
    (lastRead.op = "getNovelById" /\ lastRead.fault = "none") =>
        /\ lastRead.phase = "fulfilled"
        /\ LET matches == {i \in 1..Len(NovelStore) : NovelStore[i].novel_id = lastRead.a}
           IN  IF matches = {} THEN lastRead.value = Null
               ELSE \E i \in matches : lastRead.value = NovelStore[i]

\* C14: getWriterNovels(writerId) returns all the stored novels whose author is
\* writerId, none missing and none by another author, and the empty sequence when
\* there are none, whatever the size of the store.
C14_WriterNovelsComplete ==
    (lastRead.op = "getWriterNovels" /\ lastRead.fault = "none") =>
        /\ lastRead.phase = "fulfilled"
        /\ LET r == lastRead.value
               mine == {i \in 1..Len(NovelStore) :
                           NovelStore[i].author.user_id = lastRead.a}
           IN  /\ Len(r) = Cardinality(mine)
               /\ \A i \in mine : \E k \in 1..Len(r) : r[k] = NovelStore[i]
               /\ \A k \in 1..Len(r) : r[k].author.user_id = lastRead.a

MinPageSize == 6
MaxPageSize == 12
DescendingByLikes(r) == \A k \in 1..(Len(r) - 1) : r[k].likes >= r[k + 1].likes
DescendingByViews(r) == \A k \in 1..(Len(r) - 1) : r[k].views >= r[k + 1].views

\* C17: getRecommendedNovels returns stored novels, no more of them than the fixed
\* page size (6 for the fixture service, 12 for the route), ordered by likes
\* descending or by views descending.
C17_RecommendedBoundedOrdered ==
    (lastRead.op = "getRecommendedNovels" /\ lastRead.fault = "none") =>
        /\ lastRead.phase = "fulfilled"
        /\ LET r == lastRead.value
               pageSize == IF dal = "mock" THEN RecommendedSliceEnd ELSE NovelsTake
           IN  /\ pageSize \in MinPageSize..MaxPageSize
               /\ Len(r) <= pageSize
               /\ \A k \in 1..Len(r) : \E i \in 1..Len(NovelStore) : r[k] = NovelStore[i]
               /\ \A j, k \in 1..Len(r) : r[j].novel_id = r[k].novel_id => j = k
               /\ DescendingByLikes(r) \/ DescendingByViews(r)

(***************************************************************************)
(* Threading on its own: any list of up to MaxComments comments with       *)
(* distinct ids, in any order; ids are handed out in creation order, so a  *)
(* comment's parent is none, a comment created before it (in the list or   *)
(* not) or a comment that has been deleted                                 *)
(***************************************************************************)
CommentIds == 1..MaxComments
DeletedComment == 99
Parents(id) == {NoParent, DeletedComment} \cup {p \in CommentIds : p < id}
CommentLists ==
    UNION {UNION {{[i \in 1..n |-> Comment(ids[i], parents[i])] :
                      parents \in {g \in [1..n -> {NoParent, DeletedComment} \cup CommentIds] :
                                      \A i \in 1..n : g[i] \in Parents(ids[i])}} :
                  ids \in {f \in [1..n -> CommentIds] :
                              \A i, j \in 1..n : f[i] = f[j] => i = j}} :
           n \in 0..MaxComments}

ThreadInit ==
    /\ dal = "mock"
    /\ status = "ready"
    /\ user = InitialMockUsers[1]
    /\ sessionStorage = SetItem(EmptyStorage, "user", JSONStringify(InitialMockUsers[1]))
    /\ mockUsers = InitialMockUsers
    /\ dbUsers = InitialMockUsers
    /\ pending = <<>>
    /\ lastCall = NoResult
    /\ locationHash = ReadPrefix \o <<"1">>
    /\ hash = locationHash
    /\ dbNovels = <<>>
    /\ dbEpisodes = <<>>
    /\ lastRead = NoRead
    /\ comments \in CommentLists
    /\ forest = NotThreaded

ThreadNext == ThreadComments

ThreadSpec == ThreadInit /\ [][ThreadNext]_vars

\* every node of a forest, at any depth
RECURSIVE NodesOf(_)
NodesOf(nodes) ==
    UNION {{nodes[i]} \cup NodesOf(nodes[i].replies) : i \in 1..Len(nodes)}

IdsOf(seq) == [i \in 1..Len(seq) |-> seq[i].comment_id]
InputIds == {comments[i].comment_id : i \in 1..Len(comments)}
Shown == {n.comment_id : n \in NodesOf(forest.roots)}
ChildrenOf(id) == SelectSeq(comments, LAMBDA k : k.parent_comment_id = id)

\* the parts of the claim that do not depend on whether the parent is shown:
\* the roots are the comments without a parent, a shown comment's replies are its
\* children in list order, a comment whose parent is not in the list is not shown
ThreadingBasics ==
    /\ IdsOf(forest.roots) = IdsOf(ChildrenOf(NoParent))
    /\ \A n \in NodesOf(forest.roots) : IdsOf(n.replies) = IdsOf(ChildrenOf(n.comment_id))
    /\ \A i \in 1..Len(comments) :
          (comments[i].parent_comment_id # NoParent
           /\ comments[i].parent_comment_id \notin InputIds)
          => comments[i].comment_id \notin Shown

\* threading leaves the list as it was, and threading again gives the same forest
ThreadingIsPure ==
    [][ThreadComments => /\ comments' = comments
                         /\ forest'.done
                         /\ forest.done => forest' = forest]_vars

====
